---- MODULE Spec2Model ----
(***************************************************************************)
(* A model of cloudns_sdk/api.py: the ClouDNSAPI client, the operations it *)
(* exposes, the single dispatch point make_request, and the rate limiter   *)
(* that wraps it.                                                          *)
(*                                                                         *)
(* Python values.  Scalars (str, int) are written as strings, an int by    *)
(* its decimal digits; None is the distinguished scalar NONE.  A dict is   *)
(* the sequence of its <<key, value>> items in insertion order, a list of  *)
(* tuples is the sequence of its <<key, value>> tuples.  An argument that  *)
(* is None, a dict or a list is a Py container: [kind, items].             *)
(***************************************************************************)
EXTENDS Integers, Sequences, FiniteSets, TLC

\* -------------------------------------------------------------- bounds
MaxTime == 7              \* the clock runs over 0..MaxTime ticks
MaxCalls == 3             \* calls admitted by the limiter in one behaviour
TicksPerSecond == 60      \* resolution of the clock

\* ---------------------------------------------------- program constants
\* Faulty variant: the limiter configured at twice the rate.
RATE_LIMIT_PER_SECOND_doubled == 2 * 20

RATE_LIMIT_PER_SECOND == 20
BASE_URL == "https://api.cloudns.net"
HTTP_OK == 200

\* ------------------------------------------------------- Python values
NONE == "<None>"
SELF == "<ClouDNSAPI object>"

PyNone == [kind |-> "none", items |-> << >>]
PyDict(items) == [kind |-> "dict", items |-> items]
PyList(items) == [kind |-> "list", items |-> items]
PySet(items) == [kind |-> "set", items |-> items]

\* bool(x) of a container: None and the empty dict/list are falsy.
Truthy(x) == x.kind # "none" /\ Len(x.items) > 0

\* bool(x) of a scalar: None and '' are falsy.
TruthyScalar(v) == v # NONE /\ v # ""

\* `x or {}`
OrEmptyDict(x) == IF Truthy(x) THEN x ELSE PyDict(<< >>)

\* An optional list argument: None, or a list of scalars.
NoList == [given |-> FALSE, list |-> << >>]
ListOf(s) == [given |-> TRUE, list |-> s]

HasKey(items, k) == \E i \in 1..Len(items) : items[i][1] = k

\* d[k] = v on a dict: an existing key keeps its place, a new key goes last.
DictSet(items, k, v) ==
    IF HasKey(items, k)
    THEN [i \in 1..Len(items) |-> IF items[i][1] = k THEN <<k, v>> ELSE items[i]]
    ELSE Append(items, <<k, v>>)

\* d.update(other)
RECURSIVE DictUpdate(_, _)
DictUpdate(items, other) ==
    IF other = << >> THEN items
    ELSE DictUpdate(DictSet(items, Head(other)[1], Head(other)[2]), Tail(other))

\* {key: value for key, value in pairs if key != 'kwargs' and value is not None}
\* (the keys of locals() are distinct, so every kept pair is a new key)
RECURSIVE NotNoneExceptKwargs(_)
NotNoneExceptKwargs(pairs) ==
    IF pairs = << >> THEN << >>
    ELSE LET p == Head(pairs)
             rest == NotNoneExceptKwargs(Tail(pairs))
         IN IF p[1] # "kwargs" /\ p[2] # NONE THEN <<p>> \o rest ELSE rest

\* for x in xs: params.append((key, x))
RECURSIVE AppendEach(_, _, _)
AppendEach(params, key, xs) ==
    IF xs = << >> THEN params
    ELSE AppendEach(Append(params, <<key, Head(xs)>>), key, Tail(xs))

\* A set display {x}: hashing a dict raises TypeError.
Hashable(x) == x.kind \notin {"dict", "list", "set"}

\* --------------------------------------------------------- outcomes
NoResult == [kind |-> "none", exc |-> "", arg |-> ""]
Returned(v) == [kind |-> "returned", exc |-> "", arg |-> v]
Raised(e, a) == [kind |-> "raised", exc |-> e, arg |-> a]

\* What an operation does after building its arguments: it calls
\* self.make_request(endpoint, method=..., params=..., data=...) and returns
\* its result, or it raises before reaching make_request.
CallsMakeRequest(endpoint, method, params, data) ==
    [calls |-> TRUE, endpoint |-> endpoint, method |-> method,
     params |-> params, data |-> data, raised |-> NoResult]
RaisesBefore(r) ==
    [calls |-> FALSE, endpoint |-> "", method |-> "",
     params |-> PyNone, data |-> PyNone, raised |-> r]

\* ------------------------------------------------- the client's methods
\* self is [auth_id, auth_password], set by __init__ and never assigned again.
Client(auth_id, auth_password) == [auth_id |-> auth_id, auth_password |-> auth_password]

_auth_params(self, additional_params) ==
    LET params == << <<"auth-id", self.auth_id>>, <<"auth-password", self.auth_password>> >>
    IN IF Truthy(additional_params)
       THEN PyDict(DictUpdate(params, additional_params.items))
       ELSE PyDict(params)

login(self) ==
    LET params == PyDict(<< <<"auth-id", self.auth_id>>, <<"auth-password", self.auth_password>> >>)
    IN CallsMakeRequest("login/login.json", "POST", PyNone, params)

get_current_ip(self) ==
    CallsMakeRequest("ip/get-my-ip.json", "GET", _auth_params(self, PyNone), PyNone)

get_account_balance(self) ==
    CallsMakeRequest("account/get-balance.json", "GET", _auth_params(self, PyNone), PyNone)

get_available_name_servers(self, detailed_info) ==
    LET params == _auth_params(self, PyDict(<< <<"detailed-info", detailed_info>> >>))
    IN CallsMakeRequest("dns/available-name-servers.json", "GET", params, PyNone)

register_domain_zone(self, domain_name, zone_type, ns, master_ip) ==
    LET p0 == << <<"auth-id", self.auth_id>>, <<"auth-password", self.auth_password>>,
                 <<"domain-name", domain_name>>, <<"zone-type", zone_type>> >>
        p1 == IF ns.given /\ Len(ns.list) > 0 THEN AppendEach(p0, "ns[]", ns.list) ELSE p0
        p2 == IF TruthyScalar(master_ip) THEN Append(p1, <<"master-ip", master_ip>>) ELSE p1
    IN CallsMakeRequest("dns/register.json", "POST", PyList(p2), PyNone)

delete_domain_zone(self, domain_name) ==
    LET params == PyDict(<< <<"auth-id", self.auth_id>>, <<"auth-password", self.auth_password>>,
                            <<"domain-name", domain_name>> >>)
    IN CallsMakeRequest("dns/delete.json", "POST", params, PyNone)

list_zones(self, page, rows_per_page, search, group_id, has_cloud_domains) ==
    LET params == _auth_params(self, PyDict(<< <<"page", page>>, <<"rows-per-page", rows_per_page>>,
                      <<"search", search>>, <<"group-id", group_id>>,
                      <<"has-cloud-domains", has_cloud_domains>> >>))
    IN CallsMakeRequest("dns/list-zones.json", "GET", params, PyNone)

get_pages_count(self, rows_per_page, search, group_id, has_cloud_domains) ==
    LET params == _auth_params(self, PyDict(<< <<"rows-per-page", rows_per_page>>,
                      <<"search", search>>, <<"group-id", group_id>>,
                      <<"has-cloud-domains", has_cloud_domains>> >>))
    IN CallsMakeRequest("dns/get-pages-count.json", "GET", params, PyNone)

get_zones_stats(self) ==
    CallsMakeRequest("dns/get-zones-stats.json", "GET", _auth_params(self, PyNone), PyNone)

get_zone_info(self, domain_name) ==
    LET params == _auth_params(self, PyDict(<< <<"domain-name", domain_name>> >>))
    IN CallsMakeRequest("dns/get-zone-info.json", "GET", params, PyNone)

update_zone(self, domain_name) ==
    LET params == _auth_params(self, PyDict(<< <<"domain-name", domain_name>> >>))
    IN CallsMakeRequest("dns/update-zone.json", "POST", params, PyNone)

get_update_status(self, domain_name) ==
    LET params == _auth_params(self, PyDict(<< <<"domain-name", domain_name>> >>))
    IN CallsMakeRequest("dns/update-status.json", "GET", params, PyNone)

is_updated(self, domain_name) ==
    LET params == _auth_params(self, PyDict(<< <<"domain-name", domain_name>> >>))
    IN CallsMakeRequest("dns/is-updated.json", "GET", params, PyNone)

change_zone_status(self, domain_name, status) ==
    LET params == _auth_params(self, PyDict(<< <<"domain-name", domain_name>>, <<"status", status>> >>))
    IN CallsMakeRequest("dns/change-status.json", "POST", params, PyNone)

get_records_stats(self) ==
    CallsMakeRequest("dns/get-records-stats.json", "GET", _auth_params(self, PyNone), PyNone)

get_record(self, domain_name, record_id) ==
    LET params == _auth_params(self, PyDict(<< <<"domain-name", domain_name>>, <<"record-id", record_id>> >>))
    IN CallsMakeRequest("dns/get-record.json", "GET", params, PyNone)

list_records(self, domain_name, host, host_like, record_type, rows_per_page, page, order_by) ==
    LET params == _auth_params(self, PyDict(<< <<"domain-name", domain_name>>, <<"host", host>>,
                      <<"host-like", host_like>>, <<"type", record_type>>,
                      <<"rows-per-page", rows_per_page>>, <<"page", page>>,
                      <<"order-by", order_by>> >>))
    IN CallsMakeRequest("dns/records.json", "GET", params, PyNone)

get_records_pages_count(self, domain_name, host, record_type, rows_per_page) ==
    LET params == _auth_params(self, PyDict(<< <<"domain-name", domain_name>>, <<"host", host>>,
                      <<"type", record_type>>, <<"rows-per-page", rows_per_page>> >>))
    IN CallsMakeRequest("dns/get-records-pages-count.json", "GET", params, PyNone)

\* validate(record_data) is the validation collaborator: an oracle whose
\* answer (valid, error) for this call is `verdict`.
validate(record_data, verdict) == verdict

\* Faulty variant: the request is sent whatever the validator answered.
add_record_unvalidated(self, domain_name, record_type, record, host, ttl, kwargs, verdict) ==
    CallsMakeRequest("dns/add-record.json", "POST", PyNone,
        _auth_params(self, PyDict(DictUpdate(<< <<"domain_name", domain_name>>,
                                                <<"record_type", record_type>> >>, kwargs))))

\* locals() at the head of the comprehension holds self, the named arguments
\* and kwargs, in the order of the signature.
add_record(self, domain_name, record_type, record, host, ttl, kwargs, verdict) ==
    LET locals == << <<"self", SELF>>, <<"domain_name", domain_name>>,
                     <<"record_type", record_type>>, <<"record", record>>,
                     <<"host", host>>, <<"ttl", ttl>>, <<"kwargs", "<dict>">> >>
        record_data == DictUpdate(NotNoneExceptKwargs(locals), kwargs)
        v == validate(record_data, verdict)
    IN IF v[1]
       THEN IF Hashable(PyDict(record_data))
            THEN CallsMakeRequest("dns/add-record.json", "POST", PyNone,
                                  _auth_params(self, PySet(<<record_data>>)))
            ELSE RaisesBefore(Raised("TypeError", "unhashable type: 'dict'"))
       ELSE RaisesBefore(Raised("ValueError", "Error: " \o v[2]))

delete_record(self, domain_name, record_id) ==
    LET params == _auth_params(self, PyDict(<< <<"domain-name", domain_name>>, <<"record-id", record_id>> >>))
    IN CallsMakeRequest("dns/delete-record.json", "POST", params, PyNone)

modify_record(self, domain_name, record_id, host, record, ttl, kwargs, verdict) ==
    LET locals == << <<"self", SELF>>, <<"domain_name", domain_name>>,
                     <<"record_id", record_id>>, <<"host", host>>,
                     <<"record", record>>, <<"ttl", ttl>>, <<"kwargs", "<dict>">> >>
        record_data == DictUpdate(NotNoneExceptKwargs(locals), kwargs)
        v == validate(record_data, verdict)
    IN IF v[1]
       THEN IF Hashable(PyDict(record_data))
            THEN CallsMakeRequest("dns/mod-record.json", "POST", PyNone,
                                  _auth_params(self, PySet(<<record_data>>)))
            ELSE RaisesBefore(Raised("TypeError", "unhashable type: 'dict'"))
       ELSE RaisesBefore(Raised("ValueError", "Error: " \o v[2]))

copy_records(self, domain_name, from_domain, delete_current_records) ==
    LET params == _auth_params(self, PyDict(<< <<"domain-name", domain_name>>,
                      <<"from-domain", from_domain>>,
                      <<"delete-current-records", IF delete_current_records THEN "1" ELSE "0">> >>))
    IN CallsMakeRequest("dns/copy-records.json", "POST", params, PyNone)

import_records(self, domain_name, format, content, delete_exisiting_records, record_types) ==
    LET p0 == << <<"auth-id", self.auth_id>>, <<"auth-password", self.auth_password>>,
                 <<"domain-name", domain_name>>, <<"format", format>>, <<"content", content>> >>
        p1 == IF record_types.given /\ Len(record_types.list) > 0
              THEN AppendEach(p0, "record-types[]", record_types.list) ELSE p0
        p2 == IF delete_exisiting_records
              THEN Append(p1, <<"delete-existing-records", "1">>)
              ELSE Append(p1, <<"delete-existing-records", "0">>)
    IN CallsMakeRequest("dns/records-import.json", "POST", PyList(p2), PyNone)

\* ------------------------------------------------------- the transport
\* requests.get / requests.post and the response they give.  The transport
\* either raises (no response) or answers with a status code and a body;
\* response.json() returns the decoded body or raises when it is no JSON.
Undecodable == "<html>not json</html>"
InvalidAuth == "{\"status\":\"Failed\",\"statusDescription\":\"Invalid auth\"}"
Success == "{\"status\":\"Success\"}"
Answer(status_code, json) == [raises |-> FALSE, status_code |-> status_code, json |-> json]
Responses == {Answer(HTTP_OK, Success), Answer(HTTP_OK, InvalidAuth), Answer(HTTP_OK, Undecodable),
              Answer(400, InvalidAuth), Answer(400, Success), Answer(400, Undecodable),
              Answer(201, Success), Answer(500, InvalidAuth),
              [raises |-> TRUE, status_code |-> 0, json |-> Undecodable]}

ResponseJson(response) ==
    IF response.json = Undecodable THEN Raised("JSONDecodeError", "") ELSE Returned(response.json)

\* Lines 25-28: what make_request does with the response.
HandleResponse(response) ==
    IF response.raises THEN Raised("ConnectionError", "")
    ELSE IF response.status_code # HTTP_OK
         THEN IF ResponseJson(response).kind = "raised" THEN ResponseJson(response)
              ELSE Raised("ClouDNSAPIException", ResponseJson(response).arg)
         ELSE ResponseJson(response)

\* Faulty variant: a method that is neither GET nor POST is sent as a GET.
make_request_default_get(self, endpoint, method, params, data, response) ==
    LET url == BASE_URL \o "/" \o endpoint
    IN IF method = "POST"
       THEN [result |-> HandleResponse(response),
             sent |-> << [verb |-> "POST", url |-> url, params |-> PyNone, data |-> OrEmptyDict(data)] >>]
       ELSE [result |-> HandleResponse(response),
             sent |-> << [verb |-> "GET", url |-> url, params |-> OrEmptyDict(params), data |-> PyNone] >>]

\* Faulty variant: a GET answered with a status other than 200 is sent again.
make_request_retry(self, endpoint, method, params, data, response) ==
    LET url == BASE_URL \o "/" \o endpoint
        get == [verb |-> "GET", url |-> url, params |-> OrEmptyDict(params), data |-> PyNone]
        post == [verb |-> "POST", url |-> url, params |-> PyNone, data |-> OrEmptyDict(data)]
        again == ~response.raises /\ response.status_code # HTTP_OK
    IN IF method = "GET"
       THEN [result |-> HandleResponse(response), sent |-> IF again THEN <<get, get>> ELSE <<get>>]
       ELSE IF method = "POST"
       THEN [result |-> HandleResponse(response), sent |-> IF again THEN <<post, post>> ELSE <<post>>]
       ELSE [result |-> Raised("ValueError", "Unsupported HTTP method"), sent |-> << >>]

\* The body of make_request.  `sent` is what it hands to the transport:
\* requests.get(url, params=params) or requests.post(url, data=data or {}).
make_request(self, endpoint, method, params, data, response) ==
    LET url == BASE_URL \o "/" \o endpoint
        params1 == OrEmptyDict(params)
    IN IF method = "GET"
       THEN [result |-> HandleResponse(response),
             sent |-> << [verb |-> "GET", url |-> url, params |-> params1, data |-> PyNone] >>]
       ELSE IF method = "POST"
       THEN [result |-> HandleResponse(response),
             sent |-> << [verb |-> "POST", url |-> url, params |-> PyNone, data |-> OrEmptyDict(data)] >>]
       ELSE [result |-> Raised("ValueError", "Unsupported HTTP method"), sent |-> << >>]

\* ---------------------------------------------------- the rate limiter
\* rate_limited(RATE_LIMIT_PER_SECOND): the minimum interval is
\* 1 / RATE_LIMIT_PER_SECOND seconds.  With the clock in ticks,
\* elapsed >= 1/R seconds  iff  elapsed * R >= TicksPerSecond.
NeverCalled == -1
IntervalElapsed(last, t) ==
    last = NeverCalled \/ (t - last) * RATE_LIMIT_PER_SECOND >= TicksPerSecond

\* The time at which the remaining wait is over.
WakeTime(last, t) ==
    CHOOSE w \in t..(t + TicksPerSecond) :
        /\ IntervalElapsed(last, w)
        /\ \A u \in t..(w - 1) : ~IntervalElapsed(last, u)

NoHolder == 0
\* Faulty variant: no mutex, any caller enters at any time.
MayEnter_unlocked(holder) == TRUE

\* The limiter's mutex: a caller enters only when nobody holds it.
MayEnter(holder) == holder = NoHolder

\* ------------------------------------------------ inputs of the model
DomainNames == {"example.com", "xn--bcher-kva.example"}
Opt(S) == S \cup {NONE}
CredentialPairs == {Client(NONE, NONE), Client("4242", "s3cret")}
Verdicts == {<<TRUE, NONE>>, <<FALSE, "ttl is not valid">>}
KwargsBags == {<< >>, << <<"priority", "10">> >>}
NsLists == {NoList, ListOf(<< >>), ListOf(<<"ns1.example.net">>),
            ListOf(<<"ns1.example.net", "ns2.example.net">>)}
RecordTypeLists == {NoList, ListOf(<< >>), ListOf(<<"A">>), ListOf(<<"A", "AAAA">>),
                    ListOf(<<"AAAA", "A">>), ListOf(<<"A", "A">>)}
Methods == {"GET", "POST", "PUT", "DELETE", "get"}
ParamArgs == {PyNone, PyDict(<< >>), PyDict(<< <<"q", "1">> >>)}

Call0(op) == {[op |-> op]}
CallD(op) == {[op |-> op, domain_name |-> d] : d \in DomainNames}

Invocations ==
    Call0("login") \cup Call0("get_current_ip") \cup Call0("get_account_balance")
    \cup {[op |-> "get_available_name_servers", detailed_info |-> i] : i \in {"0", "1"}}
    \cup {[op |-> "register_domain_zone", domain_name |-> d, zone_type |-> "master",
           ns |-> n, master_ip |-> m] : d \in DomainNames, n \in NsLists, m \in Opt({"", "192.0.2.1"})}
    \cup CallD("delete_domain_zone")
    \cup {[op |-> "list_zones", page |-> "1", rows_per_page |-> "20", search |-> s,
           group_id |-> g, has_cloud_domains |-> h] : s \in Opt({"exa"}), g \in Opt({"7"}), h \in Opt({"1"})}
    \cup {[op |-> "get_pages_count", rows_per_page |-> "10", search |-> s,
           group_id |-> g, has_cloud_domains |-> h] : s \in Opt({"exa"}), g \in Opt({"7"}), h \in Opt({"1"})}
    \cup Call0("get_zones_stats") \cup CallD("get_zone_info") \cup CallD("update_zone")
    \cup CallD("get_update_status") \cup CallD("is_updated")
    \cup {[op |-> "change_zone_status", domain_name |-> d, status |-> st] :
           d \in DomainNames, st \in Opt({"0", "1"})}
    \cup Call0("get_records_stats")
    \cup {[op |-> "get_record", domain_name |-> d, record_id |-> "55"] : d \in DomainNames}
    \cup {[op |-> "list_records", domain_name |-> d, host |-> h, host_like |-> hl,
           record_type |-> rt, rows_per_page |-> "20", page |-> "1", order_by |-> ob] :
           d \in DomainNames, h \in Opt({"www"}), hl \in Opt({"w"}), rt \in Opt({"A"}), ob \in Opt({"host"})}
    \cup {[op |-> "get_records_pages_count", domain_name |-> d, host |-> h,
           record_type |-> rt, rows_per_page |-> "20"] :
           d \in DomainNames, h \in Opt({"www"}), rt \in Opt({"A"})}
    \cup {[op |-> "add_record", domain_name |-> d, record_type |-> "A", record |-> r,
           host |-> h, ttl |-> "3600", kwargs |-> k, verdict |-> v] :
           d \in DomainNames, r \in Opt({"192.0.2.1"}), h \in {"", "www"}, k \in KwargsBags, v \in Verdicts}
    \cup {[op |-> "delete_record", domain_name |-> d, record_id |-> "55"] : d \in DomainNames}
    \cup {[op |-> "modify_record", domain_name |-> d, record_id |-> "55", host |-> h,
           record |-> r, ttl |-> "3600", kwargs |-> k, verdict |-> v] :
           d \in DomainNames, r \in Opt({"192.0.2.1"}), h \in {"", "www"}, k \in KwargsBags, v \in Verdicts}
    \cup {[op |-> "copy_records", domain_name |-> d, from_domain |-> "example.org",
           delete_current_records |-> b] : d \in DomainNames, b \in BOOLEAN}
    \cup {[op |-> "import_records", domain_name |-> d, format |-> "bind", content |-> "",
           delete_exisiting_records |-> b, record_types |-> rt] :
           d \in DomainNames, b \in BOOLEAN, rt \in RecordTypeLists}
    \cup {[op |-> "make_request", endpoint |-> "dns/records.json", method |-> m,
           params |-> p, data |-> q] : m \in Methods, p \in ParamArgs, q \in ParamArgs}

\* The method of the client an invocation names, applied to its arguments.
Apply(self, c) ==
    CASE c.op = "login" -> login(self)
      [] c.op = "get_current_ip" -> get_current_ip(self)
      [] c.op = "get_account_balance" -> get_account_balance(self)
      [] c.op = "get_available_name_servers" -> get_available_name_servers(self, c.detailed_info)
      [] c.op = "register_domain_zone" ->
            register_domain_zone(self, c.domain_name, c.zone_type, c.ns, c.master_ip)
      [] c.op = "delete_domain_zone" -> delete_domain_zone(self, c.domain_name)
      [] c.op = "list_zones" ->
            list_zones(self, c.page, c.rows_per_page, c.search, c.group_id, c.has_cloud_domains)
      [] c.op = "get_pages_count" ->
            get_pages_count(self, c.rows_per_page, c.search, c.group_id, c.has_cloud_domains)
      [] c.op = "get_zones_stats" -> get_zones_stats(self)
      [] c.op = "get_zone_info" -> get_zone_info(self, c.domain_name)
      [] c.op = "update_zone" -> update_zone(self, c.domain_name)
      [] c.op = "get_update_status" -> get_update_status(self, c.domain_name)
      [] c.op = "is_updated" -> is_updated(self, c.domain_name)
      [] c.op = "change_zone_status" -> change_zone_status(self, c.domain_name, c.status)
      [] c.op = "get_records_stats" -> get_records_stats(self)
      [] c.op = "get_record" -> get_record(self, c.domain_name, c.record_id)
      [] c.op = "list_records" ->
            list_records(self, c.domain_name, c.host, c.host_like, c.record_type,
                         c.rows_per_page, c.page, c.order_by)
      [] c.op = "get_records_pages_count" ->
            get_records_pages_count(self, c.domain_name, c.host, c.record_type, c.rows_per_page)
      [] c.op = "add_record" ->
            add_record(self, c.domain_name, c.record_type, c.record, c.host, c.ttl, c.kwargs, c.verdict)
      [] c.op = "delete_record" -> delete_record(self, c.domain_name, c.record_id)
      [] c.op = "modify_record" ->
            modify_record(self, c.domain_name, c.record_id, c.host, c.record, c.ttl, c.kwargs, c.verdict)
      [] c.op = "copy_records" -> copy_records(self, c.domain_name, c.from_domain, c.delete_current_records)
      [] c.op = "import_records" ->
            import_records(self, c.domain_name, c.format, c.content,
                           c.delete_exisiting_records, c.record_types)
      [] c.op = "make_request" -> CallsMakeRequest(c.endpoint, c.method, c.params, c.data)

\* ------------------------------------------------------------ the state
Callers == {1, 2, 3}

VARIABLES
    client,          \* the ClouDNSAPI instance: auth_id, auth_password
    transport,       \* how the transport answers a request
    now,             \* the clock, in ticks
    lock,            \* the caller inside the limiter, or NoHolder
    lastTimeCalled,  \* the limiter's last permitted call, or NeverCalled
    starts,          \* the calls the limiter has let through: [caller, at]
    pc,              \* per caller: "idle", "limiter", "sleeping", "request", "done"
    cur,             \* per caller: the invocation in progress or just finished
    req,             \* per caller: the arguments make_request was called with
    sent,            \* per caller: the requests handed to the transport
    result,          \* per caller: what the invocation returned or raised
    wakeAt,          \* per caller: when its sleep in the limiter ends
    observed         \* per caller: the last-call time it read on entering

vars == <<client, transport, now, lock, lastTimeCalled, starts, pc, cur, req, sent,
          result, wakeAt, observed>>

NoInvocation == [op |-> "none"]
NoRequest == RaisesBefore(NoResult)

Init ==
    /\ client \in CredentialPairs
    /\ transport \in Responses
    /\ now = 0
    /\ lock = NoHolder
    /\ lastTimeCalled = NeverCalled
    /\ starts = << >>
    /\ pc = [t \in Callers |-> "idle"]
    /\ cur = [t \in Callers |-> NoInvocation]
    /\ req = [t \in Callers |-> NoRequest]
    /\ sent = [t \in Callers |-> << >>]
    /\ result = [t \in Callers |-> NoResult]
    /\ wakeAt = [t \in Callers |-> 0]
    /\ observed = [t \in Callers |-> NeverCalled]

InFlight == {t \in Callers : pc[t] \in {"limiter", "sleeping"}}

\* Caller t invokes a method of the client.  The method builds its arguments
\* and either raises or reaches make_request, where the limiter comes first.
Invoke(t, c) ==
    /\ pc[t] = "idle"
    /\ LET plan == Apply(client, c)
       IN /\ plan.calls => Len(starts) + Cardinality(InFlight) < MaxCalls
          /\ cur' = [cur EXCEPT ![t] = c]
          /\ sent' = [sent EXCEPT ![t] = << >>]
          /\ req' = [req EXCEPT ![t] = plan]
          /\ pc' = [pc EXCEPT ![t] = IF plan.calls THEN "limiter" ELSE "done"]
          /\ result' = [result EXCEPT ![t] = plan.raised]
    /\ UNCHANGED <<client, transport, now, lock, lastTimeCalled, starts, wakeAt, observed>>

\* The limiter's wrapper: read the last-call time; proceed at once when the
\* interval has elapsed, recording the call, and otherwise sleep.
LimiterEnter(t) ==
    /\ pc[t] = "limiter"
    /\ MayEnter(lock)
    /\ observed' = [observed EXCEPT ![t] = lastTimeCalled]
    /\ IF IntervalElapsed(lastTimeCalled, now)
       THEN /\ lastTimeCalled' = now
            /\ starts' = Append(starts, [caller |-> t, at |-> now])
            /\ pc' = [pc EXCEPT ![t] = "request"]
            /\ UNCHANGED <<lock, wakeAt>>
       ELSE /\ wakeAt' = [wakeAt EXCEPT ![t] = WakeTime(lastTimeCalled, now)]
            /\ lock' = t
            /\ pc' = [pc EXCEPT ![t] = "sleeping"]
            /\ UNCHANGED <<lastTimeCalled, starts>>
    /\ UNCHANGED <<client, transport, now, cur, req, sent, result>>

\* The sleep is over (time.sleep returns no earlier than asked): record the
\* call as permitted now, leave the limiter and run the wrapped function.
LimiterWake(t) ==
    /\ pc[t] = "sleeping"
    /\ now >= wakeAt[t]
    /\ lastTimeCalled' = now
    /\ starts' = Append(starts, [caller |-> t, at |-> now])
    /\ lock' = IF lock = t THEN NoHolder ELSE lock
    /\ pc' = [pc EXCEPT ![t] = "request"]
    /\ UNCHANGED <<client, transport, now, cur, req, sent, result, wakeAt, observed>>

\* The body of make_request runs: at most one request goes to the transport
\* and its response, or the error, is the invocation's result.
Request(t) ==
    /\ pc[t] = "request"
    /\ LET r == make_request(client, req[t].endpoint, req[t].method, req[t].params,
                             req[t].data, transport)
       IN /\ sent' = [sent EXCEPT ![t] = sent[t] \o r.sent]
          /\ result' = [result EXCEPT ![t] = r.result]
    /\ pc' = [pc EXCEPT ![t] = "done"]
    /\ UNCHANGED <<client, transport, now, lock, lastTimeCalled, starts, cur, req, wakeAt, observed>>

\* The caller has its return value or its exception; the invocation is over.
Return(t) ==
    /\ pc[t] = "done"
    /\ pc' = [pc EXCEPT ![t] = "idle"]
    /\ cur' = [cur EXCEPT ![t] = NoInvocation]
    /\ req' = [req EXCEPT ![t] = NoRequest]
    /\ sent' = [sent EXCEPT ![t] = << >>]
    /\ result' = [result EXCEPT ![t] = NoResult]
    /\ wakeAt' = [wakeAt EXCEPT ![t] = 0]
    /\ observed' = [observed EXCEPT ![t] = NeverCalled]
    /\ UNCHANGED <<client, transport, now, lock, lastTimeCalled, starts>>

Tick ==
    /\ now < MaxTime
    /\ now' = now + 1
    /\ UNCHANGED <<client, transport, lock, lastTimeCalled, starts, pc, cur, req, sent,
                   result, wakeAt, observed>>

\* One caller, every operation of the client.
Next ==
    \/ \E c \in Invocations : Invoke(1, c)
    \/ LimiterEnter(1)
    \/ LimiterWake(1)
    \/ Request(1)
    \/ Return(1)
    \/ Tick

Spec == Init /\ [][Next]_vars

\* Concurrent callers sharing the client, each calling login or get_current_ip.
ConcurrentInvocations == Call0("login") \cup Call0("get_current_ip")

InitConcurrent ==
    /\ Init
    /\ client = Client("4242", "s3cret")

NextConcurrent ==
    \/ \E t \in Callers : \E c \in ConcurrentInvocations : Invoke(t, c)
    \/ \E t \in Callers : LimiterEnter(t)
    \/ \E t \in Callers : LimiterWake(t)
    \/ \E t \in Callers : Request(t)
    \/ \E t \in Callers : Return(t)
    \/ Tick

SpecConcurrent == InitConcurrent /\ [][NextConcurrent]_vars

\* ============================================================ the claims
Finished(t) == pc[t] = "done"
ClientOperation(c) == c.op \notin {"none", "make_request"}
RecordOperation(c) == c.op \in {"add_record", "modify_record"}
Url(endpoint) == BASE_URL \o "/" \o endpoint

\* The values of the entries of `items` under key k, in order.
RECURSIVE ValuesOf(_, _)
ValuesOf(items, k) ==
    IF items = << >> THEN << >>
    ELSE IF Head(items)[1] = k THEN <<Head(items)[2]>> \o ValuesOf(Tail(items), k)
         ELSE ValuesOf(Tail(items), k)

\* Where a request carries its parameters: the query of a GET, the body of a POST.
Carried(request) == IF request.verb = "GET" THEN request.params ELSE request.data

HasCredentials(items) ==
    /\ ValuesOf(items, "auth-id") = <<client.auth_id>>
    /\ ValuesOf(items, "auth-password") = <<client.auth_password>>

\* C1: every request a public operation of the client hands to the transport
\* carries auth-id and auth-password equal to the client's credentials, in the
\* query parameters of a GET and in the body of a POST.
C1_CredentialsOnEveryRequest ==
    \A t \in Callers : \A i \in 1..Len(sent[t]) :
        ClientOperation(cur[t]) => HasCredentials(Carried(sent[t][i]).items)

\* C2: at 20 calls per second, two consecutive calls the limiter lets through
\* start at least 1/20 s apart, and the first and the last of N calls start at
\* least (N-1)/20 s apart.
C2_MinimumSpacing ==
    /\ \A i \in 1..(Len(starts) - 1) :
           (starts[i + 1].at - starts[i].at) * 20 >= TicksPerSecond
    /\ Len(starts) >= 1 =>
           (starts[Len(starts)].at - starts[1].at) * 20 >= (Len(starts) - 1) * TicksPerSecond

\* Three calls through the limiter, of different operations, the later ones
\* having had to wait.
C2_Witness ==
    /\ Len(starts) = 3
    /\ starts[3].at > starts[1].at
    /\ \E t, u \in Callers : Finished(t) /\ Finished(u) /\ cur[t].op # cur[u].op

\* C3: make_request with a method other than GET and POST raises ValueError
\* and hands nothing to the transport.
C3_UnsupportedMethod ==
    \A t \in Callers :
        (cur[t].op = "make_request" /\ cur[t].method \notin {"GET", "POST"}) =>
            /\ sent[t] = << >>
            /\ Finished(t) => result[t] = Raised("ValueError", "Unsupported HTTP method")

C3_Witness ==
    \E t \in Callers :
        /\ Finished(t) /\ cur[t].op = "make_request" /\ cur[t].method \in {"PUT", "get"}
        /\ Truthy(cur[t].params) /\ Truthy(cur[t].data)
        /\ result[t].exc = "ValueError"

\* C4: when the transport answers with a status other than 200, any operation
\* of the client (add_record and modify_record with accepted data included)
\* fails with ClouDNSAPIException carrying the parsed body of that response.
C4_ApiErrorFromAnyOperation ==
    \A t \in Callers :
        ( /\ Finished(t) /\ ClientOperation(cur[t])
          /\ RecordOperation(cur[t]) => cur[t].verdict[1]
          /\ ~transport.raises /\ transport.status_code # 200
          /\ transport.json # Undecodable )
        => result[t] = Raised("ClouDNSAPIException", transport.json)

\* C5: when the validator rejects the record data, add_record and
\* modify_record raise ValueError describing the failure, and neither
\* make_request nor the transport is called.
C5_RejectedRecord ==
    \A t \in Callers :
        (RecordOperation(cur[t]) /\ ~cur[t].verdict[1]) =>
            /\ Finished(t)
            /\ result[t] = Raised("ValueError", "Error: " \o cur[t].verdict[2])
            /\ ~req[t].calls
            /\ sent[t] = << >>

C5_Witness ==
    \E t \in Callers :
        /\ cur[t].op = "add_record" /\ ~cur[t].verdict[1] /\ cur[t].kwargs # << >>
        /\ result[t] = Raised("ValueError", "Error: ttl is not valid")
        /\ sent[t] = << >>

\* The named arguments of add_record / modify_record, by name.
NamedArguments(c) ==
    IF c.op = "add_record"
    THEN << <<"domain_name", c.domain_name>>, <<"record_type", c.record_type>>,
            <<"record", c.record>>, <<"host", c.host>>, <<"ttl", c.ttl>> >>
    ELSE << <<"domain_name", c.domain_name>>, <<"record_id", c.record_id>>,
            <<"host", c.host>>, <<"record", c.record>>, <<"ttl", c.ttl>> >>

RecordEndpoint(c) == IF c.op = "add_record" THEN "dns/add-record.json" ELSE "dns/mod-record.json"

\* C6: when the validator accepts, add_record (modify_record) issues exactly
\* one POST to dns/add-record.json (dns/mod-record.json) whose body holds the
\* credentials, every named argument that is not None and every entry of
\* kwargs, and no entry for kwargs itself; the parsed response is returned.
C6_AcceptedRecordIsPosted ==
    \A t \in Callers :
        (Finished(t) /\ RecordOperation(cur[t]) /\ cur[t].verdict[1]) =>
            /\ Len(sent[t]) = 1
            /\ sent[t][1].verb = "POST"
            /\ sent[t][1].url = Url(RecordEndpoint(cur[t]))
            /\ LET body == sent[t][1].data.items
                   named == NamedArguments(cur[t])
               IN /\ HasCredentials(body)
                  /\ \A i \in 1..Len(named) :
                         named[i][2] # NONE => ValuesOf(body, named[i][1]) = <<named[i][2]>>
                  /\ \A i \in 1..Len(cur[t].kwargs) :
                         ValuesOf(body, cur[t].kwargs[i][1]) = <<cur[t].kwargs[i][2]>>
                  /\ ~HasKey(body, "kwargs")
            /\ (~transport.raises /\ transport.status_code = 200 /\ transport.json # Undecodable)
                   => result[t] = Returned(transport.json)

\* The keys of the optional arguments an invocation leaves at None.
UnsetKeys(c) ==
    CASE c.op = "list_records" ->
            {k \in {"host", "host-like", "type", "order-by"} :
                \/ k = "host" /\ c.host = NONE
                \/ k = "host-like" /\ c.host_like = NONE
                \/ k = "type" /\ c.record_type = NONE
                \/ k = "order-by" /\ c.order_by = NONE}
      [] c.op \in {"list_zones", "get_pages_count"} ->
            {k \in {"search", "group-id", "has-cloud-domains"} :
                \/ k = "search" /\ c.search = NONE
                \/ k = "group-id" /\ c.group_id = NONE
                \/ k = "has-cloud-domains" /\ c.has_cloud_domains = NONE}
      [] c.op = "get_records_pages_count" ->
            {k \in {"host", "type"} :
                \/ k = "host" /\ c.host = NONE
                \/ k = "type" /\ c.record_type = NONE}
      [] c.op = "change_zone_status" -> {k \in {"status"} : c.status = NONE}
      [] OTHER -> {}

\* C7: for list_records, list_zones, get_pages_count, get_records_pages_count
\* and change_zone_status, an optional argument left at None has no key in
\* the parameter set passed to make_request.
C7_UnsetArgumentsAbsent ==
    \A t \in Callers :
        req[t].calls => \A k \in UnsetKeys(cur[t]) : ~HasKey(req[t].params.items, k)

\* C8: the POST of import_records to dns/records-import.json carries one
\* record-types[] entry per element of record_types, same values, same order,
\* duplicates kept, and none when record_types is None or empty.
C8_RecordTypesEntries ==
    \A t \in Callers :
        (cur[t].op = "import_records" /\ Len(sent[t]) >= 1) =>
            /\ sent[t][1].verb = "POST"
            /\ sent[t][1].url = Url("dns/records-import.json")
            /\ ValuesOf(Carried(sent[t][1]).items, "record-types[]") = cur[t].record_types.list

\* C9: with concurrent callers on one client the limiter's last-call time is
\* read and updated under mutual exclusion: at most one caller is between its
\* read and its update, nobody has changed the time it read, and calls of
\* different callers start at least 1/R s apart.
C9_MutualExclusion ==
    /\ \A t, u \in Callers : (pc[t] = "sleeping" /\ pc[u] = "sleeping") => t = u
    /\ \A t \in Callers : pc[t] = "sleeping" => (lock = t /\ observed[t] = lastTimeCalled)
    /\ \A i, j \in 1..Len(starts) :
           (i < j /\ starts[i].caller # starts[j].caller) =>
               (starts[j].at - starts[i].at) * RATE_LIMIT_PER_SECOND >= TicksPerSecond

\* One caller sleeps in the limiter, holding it, while another waits to
\* enter, after a call of the other caller set the time the sleeper read.
C9_Witness ==
    \E t, u \in Callers :
        /\ t # u
        /\ pc[t] = "sleeping" /\ pc[u] = "limiter"
        /\ Len(starts) >= 1 /\ starts[Len(starts)].caller = u
        /\ observed[t] = starts[Len(starts)].at

TransportFailed ==
    transport.raises \/ transport.status_code # 200 \/ transport.json = Undecodable

\* C10: an invocation hands at most one request to the transport: exactly one
\* when it returns a payload; when the transport or the response fails, the
\* error is the invocation's result after that one request; an invalid
\* argument fails with none.
C10_AtMostOneRequest ==
    \A t \in Callers :
        /\ Len(sent[t]) <= 1
        /\ (Finished(t) /\ result[t].kind = "returned") =>
               (Len(sent[t]) = 1 /\ result[t].arg = transport.json /\ ~TransportFailed)
        /\ (Finished(t) /\ Len(sent[t]) = 1 /\ TransportFailed) =>
               /\ result[t].kind = "raised"
               /\ result[t].exc \in {"ClouDNSAPIException", "JSONDecodeError", "ConnectionError"}
        /\ (Finished(t) /\ result[t].kind = "raised"
                /\ result[t].exc \in {"ValueError", "TypeError"}) => sent[t] = << >>
        /\ Finished(t) => result[t].kind \in {"returned", "raised"}

C10_Witness ==
    \E t \in Callers :
        /\ Finished(t) /\ ClientOperation(cur[t])
        /\ result[t] = Raised("ClouDNSAPIException", InvalidAuth)
        /\ Len(sent[t]) = 1

====
